---- MODULE Spec2Model ----
(***************************************************************************)
(* A model of the conversation core of the career-advisor chatbot:         *)
(*   - the session store            (src/session.py)                       *)
(*   - the remote chat client and the retry wrapper (src/gemini_handler.py)*)
(*                                                                         *)
(* Python values are modelled as follows.  A dataclass instance or a dict   *)
(* is a record, a list is a sequence, an optional value is None or Some(x).*)
(* A str the code only stores and copies is a TLA+ string; a str the code  *)
(* builds and searches with `in` (the error descriptions) is a sequence of *)
(* one-character strings, and `in` is the substring test on it.            *)
(***************************************************************************)
EXTENDS Integers, Sequences, FiniteSets, TLC

VARIABLES
    session,        \* the Session object (session.py:20-25)
    ret,            \* the last session operation and what it returned
    nAdds,          \* history: add_message calls since create_session
    sumEver,        \* history: sum of the tokens arguments since create_session
    cleared,        \* history: clear_session was called since create_session
    sumSinceClear,  \* history: sum of the tokens arguments since the last clear
    sinceClear,     \* history: a clear happened and no add_message since
    clock,          \* the wall clock read by datetime.utcnow()
    pc,             \* send_message: "idle", "attempt", "returned" or "raised"
    max_retries,    \* send_message: the retry budget of the call in progress
    attempt,        \* send_message: the loop variable
    calls,          \* history: what the remote side did on each model.chat call
    sleeps,         \* history: the argument of each time.sleep call
    result,         \* what send_message returned (None while it runs)
    user_message,   \* send_message: the user_message argument
    chat_history,   \* send_message: the chat_history argument
    endpoint,       \* the remote side as a function: request contents -> outcome
    memo,           \* history: what the first call with each arguments returned
    prior,          \* history: the user_message of the preceding call
    repeated,       \* history: a call with these arguments has returned before
    environ,        \* os.environ: whether GEMINI_API_KEY is set
    config,         \* the loaded config.yaml
    session_state,  \* st.session_state apart from the session
    ui,             \* _handle_user_input: "idle", "sending" or "crashed"
    shown,          \* what the last script run rendered below the chat
    handled,        \* history: the session before the last input, its result
    earned          \* history: tokens_used of the successful results since
                    \* the last clear

sessVars == <<session, ret, nAdds, sumEver, cleared, sumSinceClear, sinceClear, clock>>
sendVars == <<pc, max_retries, attempt, calls, sleeps, result>>
exchVars == <<user_message, chat_history, endpoint, memo, prior, repeated>>
chatVars == <<environ, config, session_state, ui, shown, handled, earned>>
vars == <<sessVars, sendVars, exchVars, chatVars>>

\* An optional value: None is the empty sequence, a present value x is <<x>>.
None == <<>>
Some(x) == <<x>>

(***************************************************************************)
(* Bounds and input domains.                                               *)
(***************************************************************************)
MaxAdds == 3          \* add_message calls explored per session
MaxTurnsArg == 2      \* largest max_turns argument explored

SessionIds == {"1f0c3a9e", "7b22d4c1"}     \* values of str(uuid.uuid4())[:8]
Times == {0, 1}                            \* readings of the wall clock
Roles == {"user", "model"}
Contents == {"hi", "ok"}
TokensArgs == {0, 2}                       \* values passed as tokens
MaxTurnsArgs == -1 .. MaxTurnsArg

Min(a, b) == IF a < b THEN a ELSE b
Max(a, b) == IF a > b THEN a ELSE b

(***************************************************************************)
(* Python's seq[start:] : a negative start counts from the end and is      *)
(* clamped at the front; a non-negative start is clamped at the end.       *)
(* NOTE: -(0) is 0, so seq[-0:] is the whole sequence.                     *)
(***************************************************************************)
PySliceFrom(seq, start) ==
    LET n  == Len(seq)
        lo == IF start < 0 THEN Max(n + start, 0) ELSE Min(start, n)
    IN  SubSeq(seq, lo + 1, n)

(***************************************************************************)
(* src/session.py                                                          *)
(***************************************************************************)
\* Message(role=..., content=...): timestamp from utcnow(), token_count None
Message(role, content, now) ==
    [role |-> role, content |-> content, timestamp |-> now, token_count |-> None]

\* Session(): fresh id, creation time, empty log, zero tokens
Session(id, now) ==
    [session_id |-> id, created_at |-> now, messages |-> <<>>,
     total_tokens_used |-> 0]

create_session(id, now) == Session(id, now)

\* the default value of the tokens parameter: add_message(..., tokens: int = 0)
TokensDefault == 0

add_message_NoAccumulate(s, role, content, tokens, now) ==
    [s EXCEPT !.messages = Append(@, Message(role, content, now)),
              !.total_tokens_used = tokens]

add_message(s, role, content, tokens, now) ==
    [s EXCEPT !.messages = Append(@, Message(role, content, now)),
              !.total_tokens_used = @ + tokens]

\* one entry of the API-shaped history
ApiEntry(msg) == [role |-> msg.role, parts |-> <<[text |-> msg.content]>>]

get_history_for_api_Prefix(s, max_turns) ==
    LET messages == SubSeq(s.messages, 1, Min(Len(s.messages), max_turns * 2))
    IN  [i \in 1 .. Len(messages) |-> ApiEntry(messages[i])]

get_history_for_api(s, max_turns) ==
    LET messages == PySliceFrom(s.messages, -(max_turns * 2))
    IN  [i \in 1 .. Len(messages) |-> ApiEntry(messages[i])]

get_message_count(s) == Len(s.messages)

clear_session_FreshSession(s) ==
    [s EXCEPT !.messages = <<>>, !.total_tokens_used = 0,
              !.created_at = 1 - @]

clear_session_KeepTotal(s) ==
    [s EXCEPT !.messages = <<>>]

clear_session(s) ==
    [s EXCEPT !.messages = <<>>, !.total_tokens_used = 0]

(***************************************************************************)
(* Session operations as actions.                                          *)
(***************************************************************************)
SessionInit ==
    /\ clock \in Times
    /\ \E id \in SessionIds : session = create_session(id, clock)
    /\ ret = [op |-> "create"]
    /\ nAdds = 0
    /\ sumEver = 0
    /\ cleared = FALSE
    /\ sumSinceClear = 0
    /\ sinceClear = FALSE

CreateSession ==
    /\ \E id \in SessionIds : session' = create_session(id, clock)
    /\ ret' = [op |-> "create"]
    /\ nAdds' = 0
    /\ sumEver' = 0
    /\ cleared' = FALSE
    /\ sumSinceClear' = 0
    /\ sinceClear' = FALSE
    /\ UNCHANGED clock
    /\ UNCHANGED <<sendVars, exchVars, chatVars>>

AddMessage ==
    /\ nAdds < MaxAdds
    /\ \E role \in Roles, content \in Contents :
          \/ \E tokens \in TokensArgs :      \* add_message(s, role, content, tokens)
                /\ session' = add_message(session, role, content, tokens, clock)
                /\ ret' = [op |-> "add", tokens_given |-> TRUE]
                /\ sumEver' = sumEver + tokens
                /\ sumSinceClear' = sumSinceClear + tokens
          \/ \* add_message(s, role, content): the call omits tokens
             /\ session' = add_message(session, role, content, TokensDefault, clock)
             /\ ret' = [op |-> "add", tokens_given |-> FALSE]
             /\ UNCHANGED <<sumEver, sumSinceClear>>
    /\ nAdds' = nAdds + 1
    /\ sinceClear' = FALSE
    /\ UNCHANGED <<cleared, clock>>
    /\ UNCHANGED <<sendVars, exchVars, chatVars>>

GetHistoryForApi_Truncating ==
    /\ \E max_turns \in MaxTurnsArgs :
          /\ ret' = [op |-> "history", max_turns |-> max_turns,
                     value |-> get_history_for_api(session, max_turns)]
          /\ session' = [session EXCEPT !.messages =
                            PySliceFrom(@, -(max_turns * 2))]
    /\ UNCHANGED <<nAdds, sumEver, cleared, sumSinceClear, sinceClear, clock>>
    /\ UNCHANGED <<sendVars, exchVars, chatVars>>

GetHistoryForApi ==
    /\ \E max_turns \in MaxTurnsArgs :
          ret' = [op |-> "history", max_turns |-> max_turns,
                  value |-> get_history_for_api(session, max_turns)]
    /\ UNCHANGED <<session, nAdds, sumEver, cleared, sumSinceClear, sinceClear, clock>>
    /\ UNCHANGED <<sendVars, exchVars, chatVars>>

GetMessageCount ==
    /\ ret' = [op |-> "count", value |-> get_message_count(session)]
    /\ UNCHANGED <<session, nAdds, sumEver, cleared, sumSinceClear, sinceClear, clock>>
    /\ UNCHANGED <<sendVars, exchVars, chatVars>>

ClearSession ==
    /\ session' = clear_session(session)
    /\ ret' = [op |-> "clear"]
    /\ cleared' = TRUE
    /\ sumSinceClear' = 0
    /\ sinceClear' = TRUE
    /\ UNCHANGED <<nAdds, sumEver, clock>>
    /\ UNCHANGED <<sendVars, exchVars, chatVars>>

\* time passes
Tick ==
    /\ \E t \in Times : t > clock /\ clock' = t
    /\ UNCHANGED <<session, ret, nAdds, sumEver, cleared, sumSinceClear, sinceClear>>
    /\ UNCHANGED <<sendVars, exchVars, chatVars>>

SessionNext ==
    \/ Tick
    \/ CreateSession
    \/ AddMessage
    \/ GetHistoryForApi
    \/ GetMessageCount
    \/ ClearSession

(***************************************************************************)
(* Text.  An error description is a sequence of one-character strings, so  *)
(* that `needle in text` is a real substring test.                         *)
(***************************************************************************)
Contains(text, needle) ==
    \E i \in 1 .. (Len(text) - Len(needle) + 1) :
        SubSeq(text, i, i + Len(needle) - 1) = needle

DigitChars == <<"0", "1", "2", "3", "4", "5", "6", "7", "8", "9">>

\* str(n) for n >= 0, as the f-string renders resp.status_code
RECURSIVE IntToStr(_)
IntToStr(n) ==
    IF n < 10 THEN <<DigitChars[n + 1]>>
    ELSE IntToStr(n \div 10) \o <<DigitChars[(n % 10) + 1]>>

Txt429 == <<"4", "2", "9">>
Txt503 == <<"5", "0", "3">>
TxtHTTP == <<"H", "T", "T", "P", " ">>
TxtColon == <<":", " ">>
TxtMaxRetries ==
    <<"M", "a", "x", " ", "r", "e", "t", "r", "i", "e", "s", " ",
      "e", "x", "c", "e", "e", "d", "e", "d", ".">>

\* str() of the errors the libraries raise inside chat
TxtJSONDecode == <<"E", "x", "p", "e", "c", "t", "i", "n", "g", " ",
                   "v", "a", "l", "u", "e">>
TxtKeyCandidates == <<"'", "c", "a", "n", "d", "i", "d", "a", "t", "e", "s", "'">>

(***************************************************************************)
(* What the remote side can do on one requests.post: the call raises a     *)
(* network-level error, or a response arrives with a status and a body.    *)
(***************************************************************************)
MsgDenied == <<"d", "e", "n", "i", "e", "d">>
MsgLimit  == <<"l", "i", "m", "i", "t", " ", "4", "2", "9", "0">>
RawEmptyObject == <<"{", "}">>
RawHtml == <<"<", "h", "t", "m", "l", ">">>

NetTimedOut == <<"t", "i", "m", "e", "d", " ", "o", "u", "t">>
NetTunnel503 == <<"t", "u", "n", "n", "e", "l", " ", "5", "0", "3">>

NoBody == [parse |-> "none", message |-> None, raw |-> <<>>,
           text |-> None, usage |-> None]

\* requests.post raises
NetworkErrors ==
    { [net |-> Some([exc |-> "Timeout", text |-> NetTimedOut]),
       status |-> 0, body |-> NoBody],
      [net |-> Some([exc |-> "ProxyError", text |-> NetTunnel503]),
       status |-> 0, body |-> NoBody] }

\* bodies of error responses: JSON with error.message, JSON without it, not JSON
ErrorBodies ==
    { [parse |-> "object", message |-> Some(m), raw |-> RawEmptyObject,
       text |-> None, usage |-> None] : m \in {MsgDenied, MsgLimit} }
    \cup
    { [parse |-> "object", message |-> None, raw |-> RawEmptyObject,
       text |-> None, usage |-> None],
      [parse |-> "invalid", message |-> None, raw |-> RawHtml,
       text |-> None, usage |-> None] }

ErrorStatuses == {400, 403, 429, 503}

ErrorResponses ==
    { [net |-> None, status |-> st, body |-> b] :
        st \in ErrorStatuses, b \in ErrorBodies }

ReplyTexts == {"", "Sure"}
UsageCounts == {None, Some(7)}

\* bodies of 200 responses: a candidate text with or without usageMetadata,
\* JSON without candidates, not JSON
OkBodies ==
    { [parse |-> "object", message |-> None, raw |-> RawEmptyObject,
       text |-> Some(t), usage |-> u] : t \in ReplyTexts, u \in UsageCounts }
    \cup
    { [parse |-> "object", message |-> None, raw |-> RawEmptyObject,
       text |-> None, usage |-> None],
      [parse |-> "invalid", message |-> None, raw |-> RawHtml,
       text |-> None, usage |-> None] }

OkResponses == { [net |-> None, status |-> 200, body |-> b] : b \in OkBodies }

Outcomes == NetworkErrors \cup ErrorResponses \cup OkResponses

(***************************************************************************)
(* src/gemini_handler.py: GeminiClient.chat                                *)
(***************************************************************************)
Raise(exc, err) ==
    [raised |-> TRUE, exc |-> exc, err |-> err, text |-> "", tokens |-> 0]

Return(text, tokens) ==
    [raised |-> FALSE, exc |-> "", err |-> <<>>, text |-> text, tokens |-> tokens]

\* data.get("usageMetadata", {}).get("totalTokenCount", 0)
UsageDefault == 0

\* f"HTTP {resp.status_code}: {err}"
HttpErrorText(status, err) ==
    TxtHTTP \o IntToStr(status) \o TxtColon \o err

\* the part of chat after requests.post: o is what the remote side did
chat(o) ==
    IF o.net # None
      THEN Raise(o.net[1].exc, o.net[1].text)                    \* line 43
    ELSE IF o.status # 200
      THEN IF o.body.parse # "object"
             THEN Raise("JSONDecodeError", TxtJSONDecode)         \* line 46
             ELSE Raise("RuntimeError",                           \* line 47
                        HttpErrorText(o.status,
                            IF o.body.message # None
                              THEN o.body.message[1] ELSE o.body.raw))
    ELSE IF o.body.parse # "object"
      THEN Raise("JSONDecodeError", TxtJSONDecode)                \* line 49
    ELSE IF o.body.text = None
      THEN Raise("KeyError", TxtKeyCandidates)                    \* line 50
    ELSE Return(o.body.text[1],
                IF o.body.usage # None THEN o.body.usage[1] ELSE UsageDefault)

(***************************************************************************)
(* src/gemini_handler.py: send_message                                     *)
(***************************************************************************)
DefaultMaxRetries == 2
MaxRetriesArg == 3
MaxRetriesArgs == (-1 .. MaxRetriesArg) \cup {DefaultMaxRetries}

\* the classes of the errors chat raises, each with its base class
BaseClass ==
    [ RuntimeError |-> "Exception",
      JSONDecodeError |-> "ValueError",
      ValueError |-> "Exception",
      KeyError |-> "LookupError",
      LookupError |-> "Exception",
      Timeout |-> "RequestException",
      ProxyError |-> "ConnectionError",
      ConnectionError |-> "RequestException",
      RequestException |-> "OSError",
      OSError |-> "Exception",
      Exception |-> "BaseException" ]

RECURSIVE IsInstance(_, _)
IsInstance(exc, cls) ==
    \/ exc = cls
    \/ exc \in DOMAIN BaseClass /\ IsInstance(BaseClass[exc], cls)

Caught_RuntimeErrorOnly(exc) == IsInstance(exc, "RuntimeError")

\* except Exception as e
Caught(exc) == IsInstance(exc, "Exception")


Retryable_NoBudgetCheck(att, budget, err) ==
    Contains(err, Txt429) \/ Contains(err, Txt503)

Retryable_HttpOnly(att, budget, err) ==
    /\ att < budget
    /\ Contains(err, TxtHTTP)
    /\ (Contains(err, Txt429) \/ Contains(err, Txt503))

Retryable_Only429(att, budget, err) ==
    att < budget /\ Contains(err, Txt429)

\* attempt < max_retries and ("429" in err or "503" in err)
Retryable(att, budget, err) ==
    att < budget /\ (Contains(err, Txt429) \/ Contains(err, Txt503))

\* 2 ** attempt
RECURSIVE Pow2(_)
Pow2(n) == IF n = 0 THEN 1 ELSE 2 * Pow2(n - 1)


Backoff_Linear(att) == att + 1

Backoff(att) == Pow2(att)

SuccessResult(r) ==
    [text |-> Some(r.text), tokens_used |-> r.tokens, success |-> TRUE,
     error |-> None]


FailureResult_Generic(err) ==
    [text |-> None, tokens_used |-> 0, success |-> FALSE,
     error |-> Some(TxtMaxRetries)]

FailureResult_KeepsTokens(err) ==
    [text |-> None, tokens_used |-> Len(err), success |-> FALSE,
     error |-> Some(err)]

FailureResult(err) ==
    [text |-> None, tokens_used |-> 0, success |-> FALSE, error |-> Some(err)]

\* the return after the loop
ExhaustedResult == FailureResult(TxtMaxRetries)

SendIdle ==
    /\ pc = "idle"
    /\ max_retries = DefaultMaxRetries
    /\ attempt = 0
    /\ calls = <<>>
    /\ sleeps = <<>>
    /\ result = None

\* send_message is called: the loop starts, or range(max_retries + 1) is empty
Enter(budget) ==
    /\ max_retries' = budget
    /\ attempt' = 0
    /\ calls' = <<>>
    /\ sleeps' = <<>>
    /\ IF 0 < budget + 1
         THEN pc' = "attempt" /\ result' = None
         ELSE pc' = "returned" /\ result' = Some(ExhaustedResult)

SendMessageCall ==
    /\ pc \in {"idle", "returned"}
    /\ \/ \E budget \in MaxRetriesArgs : Enter(budget)
       \/ Enter(DefaultMaxRetries)          \* the call omits max_retries
    /\ UNCHANGED <<sessVars, exchVars, chatVars>>

\* one pass through the loop body: model.chat, then return, retry or propagate
Attempt(o) ==
    /\ pc = "attempt"
    /\ LET r == chat(o)
          IN  /\ calls' = Append(calls, o)
              /\ IF ~r.raised
                   THEN /\ pc' = "returned"
                        /\ result' = Some(SuccessResult(r))
                        /\ UNCHANGED <<attempt, sleeps>>
                 ELSE IF ~Caught(r.exc)
                   THEN /\ pc' = "raised"
                        /\ UNCHANGED <<attempt, sleeps, result>>
                 ELSE IF Retryable(attempt, max_retries, r.err)
                   THEN /\ sleeps' = Append(sleeps, Backoff(attempt))
                        /\ attempt' = attempt + 1
                        /\ IF attempt + 1 < max_retries + 1
                             THEN pc' = "attempt" /\ UNCHANGED result
                             ELSE /\ pc' = "returned"
                                  /\ result' = Some(ExhaustedResult)
                 ELSE /\ pc' = "returned"
                      /\ result' = Some(FailureResult(r.err))
                      /\ UNCHANGED <<attempt, sleeps>>
    /\ UNCHANGED max_retries

\* send_message against a remote side that answers each request in any way
SendMessageAttempt ==
    /\ \E o \in Outcomes : Attempt(o)
    /\ UNCHANGED <<sessVars, exchVars, chatVars>>

SendNext ==
    \/ SendMessageCall
    \/ SendMessageAttempt

(***************************************************************************)
(* src/gemini_handler.py: the request GeminiClient.chat builds.  The       *)
(* client keeps no state between calls: contents is rebuilt from the       *)
(* arguments on every call; the rest of the request (system prompt,        *)
(* generation config, model name, key) is fixed at construction.           *)
(***************************************************************************)
\* parts[0].get("text", "") if parts and isinstance(parts[0], dict) else str(parts)
PartText(parts) == IF parts # <<>> THEN parts[1].text ELSE "[]"

ChatContents_CarriesPrior(message, history) ==
    (IF prior # None
       THEN <<[role |-> "user", parts |-> <<[text |-> prior[1]]>>]>>
       ELSE <<>>)
    \o [i \in 1 .. Len(history) |->
          [role |-> history[i].role,
           parts |-> <<[text |-> PartText(history[i].parts)]>>]]
    \o <<[role |-> "user", parts |-> <<[text |-> message]>>]>>

\* lines 28-34: one entry per history message, then the new user message
ChatContents(message, history) ==
    [i \in 1 .. Len(history) |->
        [role |-> history[i].role,
         parts |-> <<[text |-> PartText(history[i].parts)]>>]]
    \o <<[role |-> "user", parts |-> <<[text |-> message]>>]>>

(***************************************************************************)
(* send_message against a deterministic endpoint: the remote side answers  *)
(* a request the same way every time it sees the same contents.  endpoint  *)
(* records the answer chosen the first time each request arrives.          *)
(***************************************************************************)
HistoryEntry(role, text) == [role |-> role, parts |-> <<[text |-> text]>>]

\* the (user_message, chat_history) arguments explored
ExchangeArgs ==
    { [message |-> "hi", history |-> <<>>],
      [message |-> "ok", history |-> <<>>],
      [message |-> "hi",
       history |-> <<HistoryEntry("user", "ok"), HistoryEntry("model", "Sure")>>] }

\* the answers the deterministic endpoint may give to a request
EndpointOutcomes ==
    { o \in Outcomes :
        \/ o.net # None /\ o.net[1].text = NetTimedOut
        \/ o.net = None /\ o.status = 429 /\ o.body.message = Some(MsgDenied)
        \/ o.net = None /\ o.status = 200 /\ o.body.text = Some("Sure") }

ExchIdle ==
    /\ user_message = ""
    /\ chat_history = <<>>
    /\ endpoint = << >>
    /\ memo = << >>
    /\ prior = None
    /\ repeated = FALSE

\* calls are told apart by their message, their history and whether the
\* retry budget allows an attempt at all
MemoKey(message, history, budget) == <<message, history, budget >= 0>>

\* memo[key]: the text and tokens_used the first such call returned
Remember(key, returned, res) ==
    IF returned /\ key \notin DOMAIN memo
      THEN memo @@ (key :> [text |-> res[1].text,
                            tokens_used |-> res[1].tokens_used])
      ELSE memo

ExchangeCall ==
    /\ pc \in {"idle", "returned"}
    /\ \E a \in ExchangeArgs :
          /\ \/ \E budget \in MaxRetriesArgs : Enter(budget)
             \/ Enter(DefaultMaxRetries)      \* the call omits max_retries
          /\ user_message' = a.message
          /\ chat_history' = a.history
          /\ repeated' = (MemoKey(a.message, a.history, max_retries') \in DOMAIN memo)
          /\ memo' = Remember(MemoKey(a.message, a.history, max_retries'),
                              pc' = "returned", result')
    /\ prior' = IF pc = "idle" THEN None ELSE Some(user_message)
    /\ UNCHANGED <<endpoint, sessVars, chatVars>>

\* one model.chat call: the endpoint answers the contents as it did before
ExchangeAttempt ==
    /\ pc = "attempt"
    /\ LET request == ChatContents(user_message, chat_history)
       IN  \/ /\ request \in DOMAIN endpoint
              /\ Attempt(endpoint[request])
              /\ UNCHANGED endpoint
           \/ /\ request \notin DOMAIN endpoint
              /\ \E o \in EndpointOutcomes :
                    /\ Attempt(o)
                    /\ endpoint' = endpoint @@ (request :> o)
    /\ memo' = Remember(MemoKey(user_message, chat_history, max_retries),
                        pc' = "returned", result')
    /\ UNCHANGED <<user_message, chat_history, prior, repeated, sessVars, chatVars>>

ExchangeNext ==
    \/ ExchangeCall
    \/ ExchangeAttempt

(***************************************************************************)
(* src/config.py: get_api_key; src/gemini_handler.py: get_model            *)
(***************************************************************************)
\* the text of the EnvironmentError raised by get_api_key
TxtKeyNotSet ==
    <<"G", "E", "M", "I", "N", "I", "_", "A", "P", "I", "_", "K", "E", "Y",
      " ", "e", "n", "v", "i", "r", "o", "n", "m", "e", "n", "t", " ", "v",
      "a", "r", "i", "a", "b", "l", "e", " ", "i", "s", " ", "n", "o", "t",
      " ", "s", "e", "t", ".", " ", "P", "l", "e", "a", "s", "e", " ", "s",
      "e", "t", " ", "i", "t", " ", "i", "n", " ", "y", "o", "u", "r", " ",
      ".", "e", "n", "v", " ", "f", "i", "l", "e", " ", "o", "r", " ", "s",
      "y", "s", "t", "e", "m", " ", "e", "n", "v", "i", "r", "o", "n", "m",
      "e", "n", "t", ".">>

\* values of os.getenv("GEMINI_API_KEY"): unset, set but empty, set
EnvKeys == {None, Some(""), Some("AIza")}

\* `if not api_key`: None and the empty string are both falsy
KeyAbsent(env) == env.GEMINI_API_KEY = None \/ env.GEMINI_API_KEY = Some("")

get_api_key(env) ==
    IF KeyAbsent(env)
      THEN [raised |-> TRUE, exc |-> "EnvironmentError", err |-> TxtKeyNotSet,
            value |-> None]
      ELSE [raised |-> FALSE, exc |-> "", err |-> <<>>,
            value |-> env.GEMINI_API_KEY]

get_model_NoKeyCheck(env) ==
    [raised |-> FALSE, exc |-> "", err |-> <<>>,
     value |-> Some([api_key |-> env.GEMINI_API_KEY])]

\* get_model: reads the key, then builds the client; no request is made
get_model(env) ==
    LET k == get_api_key(env)
    IN  IF k.raised THEN k
        ELSE [raised |-> FALSE, exc |-> "", err |-> <<>>,
              value |-> Some([api_key |-> k.value])]

(***************************************************************************)
(* src/chat_interface.py: _get_error_hint                                  *)
(***************************************************************************)
UpperChars ==
    <<"A", "B", "C", "D", "E", "F", "G", "H", "I", "J", "K", "L", "M", "N",
      "O", "P", "Q", "R", "S", "T", "U", "V", "W", "X", "Y", "Z">>
LowerChars ==
    <<"a", "b", "c", "d", "e", "f", "g", "h", "i", "j", "k", "l", "m", "n",
      "o", "p", "q", "r", "s", "t", "u", "v", "w", "x", "y", "z">>

LowerChar(c) ==
    IF \E i \in 1 .. Len(UpperChars) : UpperChars[i] = c
      THEN LowerChars[CHOOSE i \in 1 .. Len(UpperChars) : UpperChars[i] = c]
      ELSE c

\* str.lower()
Lower(text) == [i \in 1 .. Len(text) |-> LowerChar(text[i])]

NeedleApiKey ==
    <<"a", "p", "i", "_", "k", "e", "y">>
NeedleApiKeySpaced ==
    <<"a", "p", "i", " ", "k", "e", "y">>
NeedleInvalid ==
    <<"i", "n", "v", "a", "l", "i", "d">>
NeedleKey ==
    <<"k", "e", "y">>
NeedlePermission ==
    <<"p", "e", "r", "m", "i", "s", "s", "i", "o", "n">>
Needle403 ==
    <<"4", "0", "3">>
NeedleQuota ==
    <<"q", "u", "o", "t", "a">>
NeedleExhausted ==
    <<"e", "x", "h", "a", "u", "s", "t", "e", "d">>
Needle429 ==
    <<"4", "2", "9">>
NeedleNotFound ==
    <<"n", "o", "t", " ", "f", "o", "u", "n", "d">>
Needle404 ==
    <<"4", "0", "4">>
NeedleModel ==
    <<"m", "o", "d", "e", "l">>
NeedleNetwork ==
    <<"n", "e", "t", "w", "o", "r", "k">>
NeedleConnection ==
    <<"c", "o", "n", "n", "e", "c", "t", "i", "o", "n">>
NeedleTimeout ==
    <<"t", "i", "m", "e", "o", "u", "t">>
NeedleEnvironment ==
    <<"e", "n", "v", "i", "r", "o", "n", "m", "e", "n", "t">>
NeedleGeminiApiKey ==
    <<"g", "e", "m", "i", "n", "i", "_", "a", "p", "i", "_", "k", "e", "y">>

\* the category of the hint returned for an error description
_get_error_hint(error_str) ==
    LET e == Lower(error_str)
    IN  IF \/ Contains(e, NeedleApiKey)
           \/ Contains(e, NeedleApiKeySpaced)
           \/ (Contains(e, NeedleInvalid) /\ Contains(e, NeedleKey))
          THEN "invalid_key"
        ELSE IF Contains(e, NeedlePermission) \/ Contains(e, Needle403)
          THEN "permission"
        ELSE IF \/ Contains(e, NeedleQuota) \/ Contains(e, NeedleExhausted)
                \/ Contains(e, Needle429)
          THEN "rate_limit"
        ELSE IF \/ Contains(e, NeedleNotFound) \/ Contains(e, Needle404)
                \/ Contains(e, NeedleModel)
          THEN "model_not_found"
        ELSE IF \/ Contains(e, NeedleNetwork) \/ Contains(e, NeedleConnection)
                \/ Contains(e, NeedleTimeout)
          THEN "network"
        ELSE IF Contains(e, NeedleEnvironment) \/ Contains(e, NeedleGeminiApiKey)
          THEN "key_not_set"
        ELSE "generic"

\* the chat surface before the first script run
ChatIdle ==
    /\ environ = [GEMINI_API_KEY |-> FALSE]
    /\ config = [max_history_turns |-> 1]
    /\ session_state = << >>
    /\ ui = "idle"
    /\ shown = None
    /\ handled = None
    /\ earned = 0

(***************************************************************************)
(* src/chat_interface.py: the chat surface.  One Streamlit script run is   *)
(* one action, except the run that handles a user input, which is split at *)
(* the model.chat calls of send_message.  A quick-prompt button feeds its  *)
(* text to the same handler as the chat input.                             *)
(***************************************************************************)
MaxInputs == 2        \* user inputs that reach the session log

WELCOME_MESSAGE == "welcome"

\* texts typed into the chat input, and what str.strip() makes of them
UserInputs == {"hi", "ok", "  "}
strip(s) == IF s = "  " THEN "" ELSE s

\* config["conversation"]["max_history_turns"]
HistoryTurns == 0 .. MaxTurnsArg

\* what the remote side may do on a request from the chat surface
ChatOutcomes ==
    { o \in Outcomes :
        \/ o.net # None /\ o.net[1].text = NetTimedOut
        \/ /\ o.net = None /\ o.status \in {403, 429}
           /\ o.body.message = Some(MsgDenied)
        \/ /\ o.net = None /\ o.status = 200 /\ o.body.parse = "object"
           /\ o.body.usage # None }

PyDropLast_Keep(seq) == seq

\* seq[:-1]
PyDropLast(seq) == SubSeq(seq, 1, Len(seq) - 1)

\* what a script run rendered below the chat messages
Shown(kind, error_msg, hint, exception) ==
    [kind |-> kind, error_msg |-> error_msg, hint |-> hint,
     exception |-> exception]

\* lines 26-39 of _init_session_state, run when "model" is not in the state
InitModel(ss, env) ==
    LET r == get_model(env)
    IN  IF ~r.raised
          THEN [ss EXCEPT !.model = r.value, !.api_ready = TRUE,
                          !.api_error = None]
        ELSE IF IsInstance(r.exc, "EnvironmentError")
          THEN [ss EXCEPT !.model = None, !.api_ready = FALSE,
                          !.api_error = Some(r.err)]
        ELSE [ss EXCEPT !.model = None, !.api_ready = FALSE,
                        !.api_error = Some(<<"[">> \o <<r.exc>> \o <<"]", " ">>
                                           \o r.err)]

WelcomeOnly == <<[role |-> "assistant", content |-> WELCOME_MESSAGE]>>

\* the state after the first script run: _init_session_state, nothing typed
ChatInit ==
    /\ SessionInit /\ clock = 0 /\ session.session_id = "1f0c3a9e"
    /\ SendIdle /\ ExchIdle
    /\ \E k \in EnvKeys : environ = [GEMINI_API_KEY |-> k]
    /\ \E n \in HistoryTurns : config = [max_history_turns |-> n]
    /\ session_state =
          InitModel([model |-> None, api_ready |-> FALSE, api_error |-> None,
                     messages_display |-> WelcomeOnly], environ)
    /\ ui = "idle"
    /\ shown = Shown("init", None, None, None)
    /\ handled = None
    /\ earned = 0

\* add_message on the session of the chat surface
SessionAdd(role, content, tokens, given) ==
    /\ session' = add_message(session, role, content, tokens, clock)
    /\ ret' = [op |-> "add", tokens_given |-> given]
    /\ nAdds' = nAdds + 1
    /\ sumEver' = sumEver + tokens
    /\ sumSinceClear' = sumSinceClear + tokens
    /\ sinceClear' = FALSE
    /\ UNCHANGED <<cleared, clock>>

\* the locals of send_message and of the handler are gone when it returns
SendForgotten ==
    /\ pc' = "idle"
    /\ max_retries' = DefaultMaxRetries
    /\ attempt' = 0
    /\ calls' = <<>>
    /\ sleeps' = <<>>
    /\ result' = None
    /\ user_message' = ""
    /\ chat_history' = <<>>

\* the environment of the process changes between script runs
SetEnvironment ==
    /\ ui = "idle"
    /\ \E k \in EnvKeys :
          /\ k # environ.GEMINI_API_KEY
          /\ environ' = [GEMINI_API_KEY |-> k]
    /\ UNCHANGED <<config, session_state, ui, shown, handled, earned>>
    /\ UNCHANGED <<sessVars, sendVars, exchVars>>

\* the Re-test button (lines 84-88): pop the keys, rerun, initialize again
RetestConnection ==
    /\ ui = "idle"
    /\ ~session_state.api_ready
    /\ session_state' = InitModel(session_state, environ)
    /\ shown' = Shown("init", None, None, None)
    /\ UNCHANGED <<environ, config, ui, handled, earned>>
    /\ UNCHANGED <<sessVars, sendVars, exchVars>>


ClearConversation_KeepsDisplay ==
    /\ ui = "idle"
    /\ session' = clear_session(session)
    /\ ret' = [op |-> "clear"]
    /\ cleared' = TRUE
    /\ sumSinceClear' = 0
    /\ sinceClear' = TRUE
    /\ shown' = Shown("cleared", None, None, None)
    /\ earned' = 0
    /\ UNCHANGED <<nAdds, sumEver, clock>>
    /\ UNCHANGED <<environ, config, session_state, ui, handled, sendVars, exchVars>>

\* the Clear Conversation button (lines 119-124)
ClearConversation ==
    /\ ui = "idle"
    /\ session' = clear_session(session)
    /\ ret' = [op |-> "clear"]
    /\ cleared' = TRUE
    /\ sumSinceClear' = 0
    /\ sinceClear' = TRUE
    /\ session_state' = [session_state EXCEPT !.messages_display = WelcomeOnly]
    /\ shown' = Shown("cleared", None, None, None)
    /\ earned' = 0
    /\ UNCHANGED <<nAdds, sumEver, clock>>
    /\ UNCHANGED <<environ, config, ui, handled, sendVars, exchVars>>

\* _handle_user_input up to the call of send_message (lines 136-169)
HandleUserInput ==
    /\ ui = "idle"
    /\ \E user_input \in UserInputs :
          IF strip(user_input) = ""
            THEN /\ shown' = Shown("blank", None, None, None)
                 /\ UNCHANGED <<session_state, ui, sessVars, sendVars,
                                user_message, chat_history>>
          ELSE
            /\ nAdds + 2 <= 2 * MaxInputs
            /\ session_state' =
                  [session_state EXCEPT !.messages_display =
                      Append(@, [role |-> "user", content |-> user_input])]
            /\ SessionAdd("user", user_input, TokensDefault, FALSE)
            /\ IF ~session_state.api_ready
                 THEN /\ shown' = Shown("not_ready", session_state.api_error,
                                        Some(_get_error_hint(session_state.api_error[1])),
                                        None)
                      /\ UNCHANGED <<ui, sendVars, user_message, chat_history>>
                 ELSE LET max_turns == config.max_history_turns
                          window == get_history_for_api(session', max_turns)
                          history == IF window # <<>> THEN PyDropLast(window)
                                     ELSE <<>>
                      IN  /\ Enter(DefaultMaxRetries)
                          /\ user_message' = user_input
                          /\ chat_history' = history
                          /\ ui' = "sending"
                          /\ shown' = Shown("spinner", None, None, None)
    /\ handled' = Some([before |-> session, result |-> None])
    /\ UNCHANGED <<environ, config, earned, endpoint, memo, prior, repeated>>

\* one model.chat call made for the handler
ChatAttempt ==
    /\ ui = "sending"
    /\ \E o \in ChatOutcomes : Attempt(o)
    /\ UNCHANGED <<sessVars, exchVars, chatVars>>

\* _handle_user_input after send_message returned (lines 171-198)
HandleResult ==
    /\ ui = "sending"
    /\ pc \in {"returned", "raised"}
    /\ IF pc = "raised"
         THEN /\ shown' = Shown("exception", None, None, Some("propagated"))
              /\ UNCHANGED <<session_state, sessVars>>
       ELSE IF result[1].success /\ result[1].text # Some("")
         THEN /\ session_state' =
                    [session_state EXCEPT !.messages_display =
                        Append(@, [role |-> "assistant",
                                   content |-> result[1].text[1]])]
              /\ SessionAdd("model", result[1].text[1], result[1].tokens_used, TRUE)
              /\ shown' = Shown("reply", None, None, None)
       ELSE LET error_msg == result[1].error   \* result.get("error", ...)
            IN  /\ IF error_msg = None          \* None.lower()
                     THEN shown' = Shown("failure", error_msg, None,
                                         Some("AttributeError"))
                     ELSE shown' = Shown("failure", error_msg,
                                         Some(_get_error_hint(error_msg[1])), None)
                /\ UNCHANGED <<session_state, sessVars>>
    /\ handled' = Some([handled[1] EXCEPT !.result = result])
    /\ earned' = IF pc = "returned" /\ result[1].success
                   THEN earned + result[1].tokens_used ELSE earned
    /\ SendForgotten
    /\ ui' = "idle"
    /\ UNCHANGED <<environ, config, endpoint, memo, prior, repeated>>

ChatNext ==
    \/ SetEnvironment
    \/ RetestConnection
    \/ ClearConversation
    \/ HandleUserInput
    \/ ChatAttempt
    \/ HandleResult

(***************************************************************************)
(* Specifications.  Spec: the operations of the session store on one       *)
(* session.  SpecSend: calls of send_message against a remote side that    *)
(* may answer each request in any of the ways of Outcomes.                 *)
(***************************************************************************)
Init == SessionInit /\ SendIdle /\ ExchIdle /\ ChatIdle

Next == SessionNext

Spec == Init /\ [][Next]_vars

SendInit == SessionInit /\ SendIdle /\ ExchIdle /\ ChatIdle

SpecSend == SendInit /\ [][SendNext]_vars

\* one session, created at time 0: the exchange does not touch the session
ExchangeInit ==
    /\ SessionInit /\ clock = 0 /\ session.session_id = "1f0c3a9e"
    /\ SendIdle /\ ExchIdle /\ ChatIdle

SpecDet == ExchangeInit /\ [][ExchangeNext]_vars

SpecChat == ChatInit /\ [][ChatNext]_vars

(***************************************************************************)
(* Session store and history windowing: properties.                        *)
(***************************************************************************)

\* C1: as long as the session has not been cleared, total_tokens_used is the
\* exact sum of the tokens arguments of the add_message calls made on it (a
\* call that omits tokens counts 0) and the log holds one message per call.
C1_TotalIsSumOfTokensArgs ==
    ~cleared =>
        /\ session.total_tokens_used = sumEver
        /\ Len(session.messages) = nAdds

C1_Witness ==
    /\ ~cleared
    /\ nAdds = 3
    /\ sumEver = 4
    /\ ret.op = "add"
    /\ ~ret.tokens_given

\* C2 (as stated): in every reachable state total_tokens_used equals the sum
\* of all token counts ever added to the session.
C2_TotalIsSumEverAdded ==
    session.total_tokens_used = sumEver

\* C2 (amended): total_tokens_used equals the sum of the token counts added
\* since the most recent clear_session, or since creation when the session
\* was never cleared.
C2_TotalIsSumSinceLastClear ==
    session.total_tokens_used = sumSinceClear

C2_Witness ==
    /\ cleared
    /\ sumSinceClear = 2
    /\ sumEver = 4
    /\ Len(session.messages) = 1

\* C3: after clear_session, and until the next add_message, the running total
\* is 0 and every get_message_count returns 0; the clear itself keeps
\* session_id and created_at and leaves an empty log.
C3_ClearResetsLogKeepsIdentity ==
    /\ [](sinceClear =>
            /\ session.total_tokens_used = 0
            /\ (ret.op = "count" => ret.value = 0))
    /\ [][ret'.op = "clear" =>
            /\ session'.session_id = session.session_id
            /\ session'.created_at = session.created_at
            /\ get_message_count(session') = 0]_vars

C3_Witness ==
    /\ sinceClear
    /\ ret.op = "count"
    /\ nAdds >= 2
    /\ sumEver > 0
    /\ session.created_at < clock

\* C4: for every max_turns >= 0, 0 included, get_history_for_api returns at
\* most 2 * max_turns entries.
C4_WindowAtMostTwiceMaxTurns ==
    (ret.op = "history" /\ ret.max_turns >= 0) =>
        Len(ret.value) <= 2 * ret.max_turns

\* an API entry carries the role and the text of a stored message
EntryOf(e, m) ==
    /\ e.role = m.role
    /\ Len(e.parts) = 1
    /\ e.parts[1].text = m.content

\* C5: for max_turns >= 1 the result of get_history_for_api is, entry by
\* entry, the role and text of a contiguous suffix of the log in log order,
\* and it is the whole log when the log holds at most 2 * max_turns messages.
C5_WindowIsSuffixOfLog ==
    (ret.op = "history" /\ ret.max_turns >= 1) =>
        LET log == session.messages
            v   == ret.value
        IN  /\ Len(v) <= Len(log)
            /\ \A i \in 1 .. Len(v) : EntryOf(v[i], log[Len(log) - Len(v) + i])
            /\ (Len(log) <= 2 * ret.max_turns => Len(v) = Len(log))

C5_Witness ==
    /\ ret.op = "history"
    /\ ret.max_turns = 1
    /\ Len(session.messages) = 3
    /\ Len(ret.value) = 2
    /\ session.messages[1].content # session.messages[3].content
    /\ session.messages[1].role # session.messages[3].role

\* C6: get_history_for_api and get_message_count change nothing of the
\* session: log, total_tokens_used, session_id and created_at are the same
\* after the call as before, whatever max_turns is.
C6_QueriesLeaveSessionUnchanged ==
    [][ret'.op \in {"history", "count"} => session' = session]_vars

C6_Witness ==
    /\ ret.op = "history"
    /\ ret.max_turns = 1
    /\ Len(ret.value) < Len(session.messages)
    /\ session.total_tokens_used > 0

(***************************************************************************)
(* Call orchestration: properties (checked under SpecSend).                *)
(***************************************************************************)
Last(seq) == seq[Len(seq)]

\* the call failed with the client's "HTTP 429: ..." or "HTTP 503: ..." error
HttpTransient(o) ==
    /\ o.net = None
    /\ o.status \in {429, 503}
    /\ o.body.parse = "object"

\* a 200 response that carries a candidate text
HttpSuccess(o) ==
    /\ o.net = None
    /\ o.status = 200
    /\ o.body.parse = "object"
    /\ o.body.text # None

\* the usage count a response reports (0 when it reports none)
ReportedUsage(o) == IF o.body.usage = None THEN 0 ELSE o.body.usage[1]

HttpPermanent(o) ==
    /\ o.net = None
    /\ o.status \notin {429, 503}
    /\ ~(o.status \in 200 .. 299)

\* C8: an attempt that fails with a permanent remote error (a non-2xx status
\* other than 429/503, whatever the error message says) is the last one: no
\* further attempt, no backoff wait, and send_message returns success=False
\* with an error description that contains the remote error message.
C8_PermanentErrorIsNotRetried ==
    \A i \in 1 .. Len(calls) :
        HttpPermanent(calls[i])
        => /\ i = Len(calls)
           /\ Len(sleeps) = i - 1
           /\ pc = "returned"
           /\ result # None
           /\ ~result[1].success
           /\ result[1].error # None
           /\ (calls[i].body.message # None =>
                  Contains(result[1].error[1], calls[i].body.message[1]))

\* C9: a result of send_message has one of two shapes: success=True with the
\* text and usage count of the response and error=None, or success=False with
\* text=None, tokens_used=0 and a non-empty error description.
C9_ResultIsSuccessOrFailure ==
    result # None =>
        LET r == result[1]
        IN  \/ /\ r.success
               /\ r.error = None
               /\ Len(calls) >= 1
               /\ r.text = Last(calls).body.text
               /\ r.text # None
               /\ r.tokens_used = ReportedUsage(Last(calls))
            \/ /\ ~r.success
               /\ r.text = None
               /\ r.tokens_used = 0
               /\ r.error # None
               /\ Len(r.error[1]) > 0

C9_Witness ==
    /\ pc = "returned"
    /\ result # None
    /\ ~result[1].success
    /\ Len(calls) = 2
    /\ HttpTransient(calls[1])
    /\ calls[2].net # None

\* C10: whatever chat does on an attempt (returns, or raises for a non-200
\* status, a timeout, a connection failure or a malformed response),
\* send_message does not let an exception reach its caller: it returns.
C10_NoExceptionPropagates ==
    /\ pc # "raised"
    /\ (Len(calls) >= 1 /\ pc # "attempt") => (pc = "returned" /\ result # None)

C10_Witness ==
    /\ pc = "returned"
    /\ Len(calls) = 1
    /\ chat(calls[1]).raised
    /\ chat(calls[1]).exc = "KeyError"
    /\ result # None
    /\ ~result[1].success

\* a response with a status other than 200
HttpError(o) == o.net = None /\ o.status # 200

\* what an error response offers as description: error.message when the body
\* is JSON with that field, the raw body otherwise
ErrorPayload(o) ==
    IF o.body.parse = "object" /\ o.body.message # None
      THEN o.body.message[1] ELSE o.body.raw

\* C12: a non-200 response makes chat raise an error whose description holds
\* the HTTP status and the payload's error.message, or the raw body when the
\* body is not JSON or has no such field (seen in the failure send_message
\* returns for it).
C12_ErrorCarriesStatusAndPayload ==
    ( /\ pc = "returned"
      /\ Len(calls) >= 1
      /\ HttpError(Last(calls)) )
    => /\ result # None
       /\ ~result[1].success
       /\ result[1].error # None
       /\ Contains(result[1].error[1], IntToStr(Last(calls).status))
       /\ Contains(result[1].error[1], ErrorPayload(Last(calls)))

\* the attempt failed with a rate-limit (429) or service-unavailable (503)
\* error: a response with that status, or a network-level error that reports
\* that status
TransientFailure(o) ==
    \/ o.net = None /\ o.status \in {429, 503}
    \/ o.net # None /\ ( \/ Contains(o.net[1].text, Txt429)
                         \/ Contains(o.net[1].text, Txt503) )

\* C15: for max_retries >= 0 one send_message call invokes chat at most
\* max_retries + 1 times, and attempt k+1 is made only if attempts 1..k all
\* failed with a rate-limit (429) or service-unavailable (503) error.
C15_AttemptsBoundedAndOnlyAfterTransient ==
    (pc # "idle" /\ max_retries >= 0) =>
        /\ Len(calls) <= max_retries + 1
        /\ \A k \in 1 .. (Len(calls) - 1) : TransientFailure(calls[k])
        /\ (pc = "attempt" =>
               \A k \in 1 .. Len(calls) : TransientFailure(calls[k]))

\* C16: when every attempt of the budget failed with a transient (429/503)
\* error, send_message returns success=False and the error is the
\* description of the last attempt's error (attempt max_retries + 1), not the
\* generic "Max retries exceeded." text.
C16_ExhaustionReturnsLastError ==
    ( /\ pc = "returned"
      /\ max_retries >= 0
      /\ Len(calls) = max_retries + 1
      /\ \A i \in 1 .. Len(calls) : TransientFailure(calls[i]) )
    => /\ result # None
       /\ ~result[1].success
       /\ result[1].error = Some(chat(Last(calls)).err)
       /\ result[1].error # Some(TxtMaxRetries)

C16_Witness ==
    /\ pc = "returned"
    /\ max_retries = 2
    /\ Len(calls) = 3
    /\ \A i \in 1 .. 3 : HttpTransient(calls[i])
    /\ calls[1].status = 429 /\ calls[1].body.message = Some(MsgLimit)
    /\ calls[2].status = 429 /\ calls[2].body.message = None
    /\ calls[3].status = 503 /\ calls[3].body.message = Some(MsgDenied)
    /\ result # None
    /\ ~result[1].success
    /\ result[1].error = Some(HttpErrorText(503, MsgDenied))

\* C17: the k-th backoff wait of a call is 2^(k-1) time units (1, 2, 4, ...);
\* there is exactly one wait between two consecutive attempts, and none after
\* the attempt that ends the call (a success, a terminal failure or the last
\* attempt of the budget).
C17_BackoffDoubles ==
    pc # "idle" =>
        /\ Len(sleeps) = IF pc = "attempt" THEN Len(calls)
                         ELSE Max(Len(calls) - 1, 0)
        /\ \A k \in 1 .. Len(sleeps) : sleeps[k] = 2 ^ (k - 1)

C17_Witness ==
    /\ pc = "returned"
    /\ max_retries = 3
    /\ Len(calls) = 4
    /\ sleeps = <<1, 2, 4>>
    /\ result # None
    /\ ~result[1].success

\* C19: the generic result with error "Max retries exceeded." is returned
\* only when the loop ends without any attempt: for max_retries >= 0 it is
\* never produced; it is what a call with max_retries < 0 returns, with no
\* attempt made.
C19_GenericFailureOnlyWithoutAttempt ==
    /\ (result # None /\ result[1].error = Some(TxtMaxRetries))
          => (max_retries < 0 /\ Len(calls) = 0)
    /\ (pc # "idle" /\ max_retries < 0)
          => /\ pc = "returned"
             /\ Len(calls) = 0
             /\ result = Some([text |-> None, tokens_used |-> 0,
                               success |-> FALSE,
                               error |-> Some(TxtMaxRetries)])

C19_Witness ==
    /\ pc = "returned"
    /\ max_retries = -1
    /\ calls = <<>>
    /\ result # None
    /\ result[1].error = Some(TxtMaxRetries)

\* the description of a network-level error matches the retry classification
NetMatchesTransient(o) ==
    \/ Contains(o.net[1].text, Txt429)
    \/ Contains(o.net[1].text, Txt503)

\* C20: an attempt that raised a network-level error is followed by a retry
\* exactly when its description matches the 429/503 classification and
\* budget remains; otherwise it is the last attempt and send_message returns
\* success=False with that error's description, and an error that does not
\* match is followed by no wait.
C20_NetworkErrorRetriedIffTransient ==
    \A i \in 1 .. Len(calls) :
        calls[i].net # None =>
            LET retried == i < Len(calls) \/ pc = "attempt"
            IN  /\ retried <=> (NetMatchesTransient(calls[i]) /\ i - 1 < max_retries)
                /\ ~retried =>
                      /\ pc = "returned"
                      /\ Len(sleeps) = i - 1
                      /\ result = Some([text |-> None, tokens_used |-> 0,
                                        success |-> FALSE,
                                        error |-> Some(calls[i].net[1].text)])

C20_Witness ==
    /\ pc = "returned"
    /\ Len(calls) = 2
    /\ calls[1].net # None /\ NetMatchesTransient(calls[1])
    /\ calls[2].net # None /\ ~NetMatchesTransient(calls[2])
    /\ sleeps = <<1>>
    /\ max_retries = 2
    /\ result # None
    /\ result[1].error = Some(NetTimedOut)

\* C13: against a deterministic endpoint, a send_message call returns the
\* text and tokens_used that the first call with the same user message and
\* the same history returned, whatever calls were made in between (calls
\* whose retry budget allows no attempt form their own class: they return
\* no text and zero tokens whatever the endpoint would answer).
C13_SameCallSameTextAndTokens ==
    pc = "returned" =>
        LET key == MemoKey(user_message, chat_history, max_retries)
        IN  /\ result # None
            /\ key \in DOMAIN memo
            /\ result[1].text = memo[key].text
            /\ result[1].tokens_used = memo[key].tokens_used

C13_Witness ==
    /\ pc = "returned"
    /\ max_retries >= 0
    /\ prior # None /\ prior # Some(user_message)
    /\ MemoKey(user_message, chat_history, max_retries) \in DOMAIN memo
    /\ repeated
    /\ Cardinality(DOMAIN endpoint) >= 2
    /\ result # None
    /\ result[1].success
    /\ result[1].text = Some("Sure")
    /\ result[1].tokens_used = 7

\* the client is not ready because the key was missing when it was built
NotReadyForMissingKey(ss) ==
    /\ ~ss.api_ready
    /\ ss.model = None
    /\ ss.api_error = Some(TxtKeyNotSet)

\* C11: when GEMINI_API_KEY is absent (unset or empty), initialization (the
\* first one and every Re-test) ends with the configuration error and
\* without a request; and while the client is not ready no step issues a
\* request, whatever the user types: send_message is never entered and no
\* request has been made.
C11_NoRequestWithoutKey ==
    /\ KeyAbsent(environ) => NotReadyForMissingKey(session_state)
    /\ [](~session_state.api_ready => (pc = "idle" /\ calls = <<>>))
    /\ [][ /\ (RetestConnection /\ KeyAbsent(environ))
                => (NotReadyForMissingKey(session_state') /\ calls' = calls)
           /\ ~session_state.api_ready => (calls' = calls /\ pc' = "idle")
         ]_vars

C11_Witness ==
    /\ KeyAbsent(environ)
    /\ NotReadyForMissingKey(session_state)
    /\ shown.kind = "not_ready"
    /\ shown.error_msg = Some(TxtKeyNotSet)
    /\ Len(session.messages) = 2
    /\ Len(session_state.messages_display) = 3
    /\ pc = "idle"
    /\ calls = <<>>

\* C14: whenever the failure branch of _handle_user_input is taken, it
\* displays and pattern-matches the literal, non-empty error description of
\* the failed exchange: the description is present, the hint is the one
\* derived from it, and the handler does not stop with an exception.
C14_FailureBranchShowsLiteralError ==
    shown.kind = "failure" =>
        /\ shown.error_msg # None
        /\ shown.error_msg[1] # <<>>
        /\ shown.hint = Some(_get_error_hint(shown.error_msg[1]))
        /\ shown.exception = None

\* the API-shaped entries of a stretch of the log
EntriesOf(messages) == [i \in 1 .. Len(messages) |-> ApiEntry(messages[i])]

\* C18: while the handler waits for send_message (max_turns >= 1), the
\* history it passed is the window of the session taken after the new user
\* message was appended, minus its last entry: it has at most
\* 2 * max_turns - 1 entries, it is a suffix of the log as it was before the
\* append, and the request contents are a suffix of the log after the
\* append, so the new user message is in them once, as the final entry, and
\* is not in the history.
C18_HistoryExcludesNewMessage ==
    (ui = "sending" /\ config.max_history_turns >= 1) =>
        LET max_turns == config.max_history_turns
            log == session.messages
            before == SubSeq(log, 1, Len(log) - 1)
            n == Len(chat_history)
        IN  /\ Len(log) >= 1
            /\ log[Len(log)].role = "user"
            /\ log[Len(log)].content = user_message
            /\ chat_history = PyDropLast(get_history_for_api(session, max_turns))
            /\ n <= 2 * max_turns - 1
            /\ n <= Len(before)
            /\ chat_history = EntriesOf(SubSeq(before, Len(before) - n + 1, Len(before)))
            /\ ChatContents(user_message, chat_history)
                  = EntriesOf(SubSeq(log, Len(log) - n, Len(log)))

C18_Witness ==
    /\ ui = "sending"
    /\ pc = "attempt"
    /\ config.max_history_turns = 1
    /\ Len(session.messages) = 3
    /\ user_message = "ok"
    /\ chat_history = <<HistoryEntry("model", "Sure")>>
    /\ ChatContents(user_message, chat_history)
          = <<HistoryEntry("model", "Sure"), HistoryEntry("user", "ok")>>

\* the roles of a log alternate user, model, user, model, ... from a user
Alternates(messages) ==
    \A i \in 1 .. Len(messages) :
        messages[i].role = IF i % 2 = 1 THEN "user" ELSE "model"

\* C21: after any sequence of completed user-input handlings (successful,
\* failed, or rejected because the API is not ready) and Clear Conversation
\* actions, the stored session log strictly alternates user, model, user,
\* model, ... starting with a user message.
C21_LogAlternatesUserModel ==
    ui = "idle" => Alternates(session.messages)

\* session s1 is session s0 with messages of the given roles appended and
\* total_tokens_used grown by tokens
GrewBy(s0, s1, roles, tokens) ==
    /\ Len(s1.messages) = Len(s0.messages) + Len(roles)
    /\ SubSeq(s1.messages, 1, Len(s0.messages)) = s0.messages
    /\ \A i \in 1 .. Len(roles) : s1.messages[Len(s0.messages) + i].role = roles[i]
    /\ s1.total_tokens_used = s0.total_tokens_used + tokens

\* C22: a handled user input changes the session by one of two deltas: a
\* successful exchange appends the user and the model message and adds the
\* result's tokens_used to total_tokens_used; a failed exchange or an input
\* while the API is not ready appends the user message only and leaves the
\* total; a blank input changes nothing.  Hence total_tokens_used is the sum
\* of tokens_used over the successful exchanges since the last clear.
C22_InputChangesSessionByOneDelta ==
    ui = "idle" =>
        /\ shown.kind = "blank" => session = handled[1].before
        /\ shown.kind = "not_ready" =>
              GrewBy(handled[1].before, session, <<"user">>, 0)
        /\ shown.kind \in {"reply", "failure"} =>
              LET r == handled[1].result[1]
              IN  IF r.success
                    THEN GrewBy(handled[1].before, session,
                                <<"user", "model">>, r.tokens_used)
                    ELSE GrewBy(handled[1].before, session, <<"user">>, 0)
        /\ session.total_tokens_used = earned

\* the number of entries of a list of messages that carry the given role
CountRole(messages, role) ==
    Cardinality({i \in 1 .. Len(messages) : messages[i].role = role})

\* C23: after initialization and after every completed script run (an
\* input handled with success, with failure or while the API is not ready,
\* a Clear Conversation, a Re-test), messages_display and the session log
\* are in step: as many user entries as user messages, one assistant entry
\* (the welcome message) more than model messages; and right after Clear
\* Conversation the display is the welcome message alone and the log is
\* empty.
C23_DisplayAndLogInStep ==
    ui = "idle" =>
        /\ CountRole(session_state.messages_display, "user")
              = CountRole(session.messages, "user")
        /\ CountRole(session_state.messages_display, "assistant")
              = CountRole(session.messages, "model") + 1
        /\ Len(session_state.messages_display) = Len(session.messages) + 1
        /\ session_state.messages_display[1] =
              [role |-> "assistant", content |-> WELCOME_MESSAGE]
        /\ shown.kind = "cleared" =>
              /\ session.messages = <<>>
              /\ session_state.messages_display = WelcomeOnly

C23_Witness ==
    /\ ui = "idle"
    /\ shown.kind = "failure"
    /\ cleared
    /\ Len(session.messages) = 3
    /\ CountRole(session.messages, "user") = 2
    /\ CountRole(session.messages, "model") = 1
    /\ Len(session_state.messages_display) = 4

====
